---------------------------- MODULE Spec2Model ----------------------------
(***************************************************************************)
(* A model of twitch-archiver: the IRCv3 codec of src/src/irc.rs (parse,   *)
(* write, prefix parsing, tag unescaping) and the archive / backfill       *)
(* pipelines of src/src/main.rs (ignore filter, compress, to_json, the     *)
(* Elasticsearch sink and the bulk chunking loop).                         *)
(*                                                                         *)
(* Text is modelled as a sequence of one-character strings, so that        *)
(* splitting, prefix tests and integer parsing are computed as the code    *)
(* computes them.  An Option<T> is a sequence of length 0 (None) or 1      *)
(* (Some(x)).                                                              *)
(***************************************************************************)
EXTENDS Integers, Sequences, FiniteSets, TLC

VARIABLES
    \* --- codec (irc.rs) ---
    kind,       \* "line": input is a wire line; "tag": input is a tag value; "none"
    input,      \* the text handed to Message::parse or held by the TagValue
    owned,      \* TagValue: TRUE for Cow::Owned (a literal), FALSE for Cow::Borrowed
    cstage,     \* "init", "parsed", "written", "reparsed", "unescaped"
    parsed,     \* Message::parse(input)
    wire,       \* the bytes Message::write produced for parsed
    reparsed,   \* Message::parse(wire)
    unesc,      \* TagValue::unescape result
    \* --- compress / to_json (main.rs) ---
    pmsg,       \* the message: as received, then as compress left it
    pstage,     \* "parsed", "compressed", "projected"
    prec,       \* what to_json returned for pmsg (a Json, or Panic)
    \* --- archive / backfill (main.rs) ---
    mode,        \* "archive" or "backfill" (Args), "none"
    dont_filter, \* args.dont_filter
    chunk_size,  \* args.chunk_size: Option<usize>
    sink,        \* archive: the LogOutput chosen, "irc", "json" or "elastic"
    pc,          \* "start", "running", "done" (Ok), "error" (Err returned), "panic"
    line,        \* the input the loop read last
    nread,       \* how many inputs the loop has read
    received,    \* archive: the messages received, in order (history)
    written,     \* archive: the messages handed to output.write, in order
    status,      \* archive: the HTTP status class the last write received
    sbuf,        \* backfill: the accumulator `s`, as its sequence of units
    idx,         \* backfill: the chunk index
    output,      \* backfill: args.output, the file name pattern
    files,       \* backfill: the output directory, path -> [content, len]
    units        \* backfill: the units of the accepted lines, in order (history)

codecVars == <<kind, input, owned, cstage, parsed, wire, reparsed, unesc>>

projVars == <<pmsg, pstage, prec>>

mainVars == <<mode, dont_filter, chunk_size, sink, pc, line, nread, received, written,
              status, sbuf, idx, output, files, units>>

vars == <<codecVars, projVars, mainVars>>

-----------------------------------------------------------------------------
(* Option<T> *)

None == <<>>

Some(x) == <<x>>

IsSome(o) == Len(o) = 1

Unwrap(o) == o[1]

-----------------------------------------------------------------------------
(* str helpers (std) *)

\* s[from..] (1-based, from may be Len(s)+1)
Drop(s, n) == SubSeq(s, n + 1, Len(s))

Take(s, n) == SubSeq(s, 1, n)

StartsWith(s, p) == Len(s) >= Len(p) /\ Take(s, Len(p)) = p

EndsWith(s, p) == Len(s) >= Len(p) /\ Drop(s, Len(s) - Len(p)) = p

Contains(s, c) == \E i \in 1..Len(s) : s[i] = c

\* index of the first / last occurrence of character c in s, 0 when absent
IndexOf(s, c) ==
    IF Contains(s, c) THEN CHOOSE i \in 1..Len(s) : s[i] = c /\ \A j \in 1..(i - 1) : s[j] # c
    ELSE 0

LastIndexOf(s, c) ==
    IF Contains(s, c) THEN CHOOSE i \in 1..Len(s) : s[i] = c /\ \A j \in (i + 1)..Len(s) : s[j] # c
    ELSE 0

\* str::split(c): never empty; "" splits to [""]
RECURSIVE Split(_, _)
Split(s, c) ==
    LET i == IndexOf(s, c)
    IN  IF i = 0 THEN <<s>>
        ELSE <<Take(s, i - 1)>> \o Split(Drop(s, i), c)

RECURSIVE Flatten(_)
Flatten(ss) == IF ss = <<>> THEN <<>> ELSE Head(ss) \o Flatten(Tail(ss))

-----------------------------------------------------------------------------
(* irc.rs: TagValue::unescape *)

Backslash == "\\"

\* the match on the control character, irc.rs:37-43
UnescapeControl(control) ==
    CASE control = ":" -> ";"
      [] control = "s" -> " "
      [] control = "r" -> "\r"
      [] control = "n" -> "\n"
      [] OTHER -> control

\* one iteration of `for part in iter`, irc.rs:30-50; st = [owned, skip]
UnescapePartNoSkip(st, part) ==
    IF part # <<>>
    THEN [owned |-> st.owned \o <<UnescapeControl(Head(part))>> \o Tail(part), skip |-> FALSE]
    ELSE [owned |-> st.owned \o <<Backslash>>, skip |-> FALSE]

UnescapePart(st, part) ==
    IF st.skip
    THEN [owned |-> st.owned \o part, skip |-> FALSE]
    ELSE IF part # <<>>
         THEN [owned |-> st.owned \o <<UnescapeControl(Head(part))>> \o Tail(part),
               skip |-> FALSE]
         ELSE [owned |-> st.owned \o <<Backslash>>, skip |-> TRUE]

RECURSIVE UnescapeLoop(_, _)
UnescapeLoop(st, parts) ==
    IF parts = <<>> THEN st.owned
    ELSE UnescapeLoop(UnescapePart(st, Head(parts)), Tail(parts))

\* tv = [owned |-> BOOLEAN, s |-> text]
unescape(tv) ==
    IF tv.owned THEN tv.s
    ELSE LET iter  == Split(tv.s, Backslash)
             first == Head(iter)
         IN  IF Len(first) = Len(tv.s) THEN tv.s
             ELSE UnescapeLoop([owned |-> first, skip |-> FALSE], Tail(iter))

-----------------------------------------------------------------------------
(* irc.rs: Prefix::parse *)

\* pop_suffix: rsplit_once(sep); [rest, part] with part an Option
pop_suffix(message, sep) ==
    LET i == LastIndexOf(message, sep)
    IN  IF i = 0 THEN [rest |-> message, part |-> None]
        ELSE [rest |-> Take(message, i - 1), part |-> Some(Drop(message, i))]

PrefixParse(raw) ==
    LET h == pop_suffix(raw, "@")
        u == pop_suffix(h.rest, "!")
    IN  [nick |-> u.rest, user |-> u.part, host |-> h.part]

-----------------------------------------------------------------------------
(* irc.rs: Message::parse *)

\* pop_by_space: split_once(' '); [part, rest]
pop_by_space(message) ==
    LET i == IndexOf(message, " ")
    IN  IF i = 0 THEN [part |-> message, rest |-> <<>>]
        ELSE [part |-> Take(message, i - 1), rest |-> Drop(message, i)]

\* kv.splitn(2, '=') -> (key, TagValue(Borrowed(value or "")))
ParseTag(kv) ==
    LET i == IndexOf(kv, "=")
    IN  IF i = 0 THEN [k |-> kv, v |-> [owned |-> FALSE, s |-> <<>>]]
        ELSE [k |-> Take(kv, i - 1), v |-> [owned |-> FALSE, s |-> Drop(kv, i)]]

ParseTags(raw) ==
    LET kvs == Split(raw, ";")
    IN  [i \in 1..Len(kvs) |-> ParseTag(kvs[i])]

\* the `while !message.is_empty()` loop, irc.rs:164-171
RECURSIVE ParseParams(_)
ParseParams(message) ==
    IF message = <<>> THEN <<>>
    ELSE IF Head(message) = ":" THEN <<Tail(message)>>
    ELSE LET p == pop_by_space(message)
         IN  <<p.part>> \o ParseParams(p.rest)

parse(message) ==
    LET p1      == pop_by_space(message)
        hasTags == p1.part # <<>> /\ Head(p1.part) = "@"
        p2      == IF hasTags THEN pop_by_space(p1.rest) ELSE p1
        tags    == IF hasTags THEN ParseTags(Tail(p1.part)) ELSE <<>>
        hasPfx  == p2.part # <<>> /\ Head(p2.part) = ":"
        p3      == IF hasPfx THEN pop_by_space(p2.rest) ELSE p2
        prefix  == IF hasPfx THEN Some(PrefixParse(Tail(p2.part))) ELSE None
    IN  [tags    |-> tags,
         prefix  |-> prefix,
         command |-> p3.part,
         params  |-> ParseParams(p3.rest)]

-----------------------------------------------------------------------------
(* irc.rs: Message::write *)

WriteTags(tags) ==
    IF tags = <<>> THEN <<>>
    ELSE <<"@">>
         \o Flatten([i \in 1..(Len(tags) - 1) |-> tags[i].k \o <<"=">> \o tags[i].v.s \o <<";">>])
         \o tags[Len(tags)].k \o <<"=">> \o tags[Len(tags)].v.s \o <<" ">>

WritePrefix(prefix) ==
    IF ~IsSome(prefix) THEN <<>>
    ELSE LET p == Unwrap(prefix)
         IN  <<":">> \o p.nick
             \o (IF IsSome(p.user) THEN <<"!">> \o Unwrap(p.user) ELSE <<>>)
             \o (IF IsSome(p.host) THEN <<"@">> \o Unwrap(p.host) ELSE <<>>)
             \o <<" ">>

\* the last parameter, irc.rs:116-122
WriteLast(last) ==
    IF last # <<>> /\ Head(last) = "#" THEN <<" ">> \o last
    ELSE <<" ", ":">> \o last

WriteParams(params) ==
    IF params = <<>> THEN <<>>
    ELSE Flatten([i \in 1..(Len(params) - 1) |-> <<" ">> \o params[i]])
         \o WriteLast(params[Len(params)])

write(m) == WriteTags(m.tags) \o WritePrefix(m.prefix) \o m.command \o WriteParams(m.params)

-----------------------------------------------------------------------------
(* main.rs: text constants *)

K_client_nonce == <<"c", "l", "i", "e", "n", "t", "-", "n", "o", "n", "c", "e">>

K_display_name == <<"d", "i", "s", "p", "l", "a", "y", "-", "n", "a", "m", "e">>

K_id == <<"i", "d">>

K_tmi_sent_ts == <<"t", "m", "i", "-", "s", "e", "n", "t", "-", "t", "s">>

K_badges == <<"b", "a", "d", "g", "e", "s">>

K_badge_info == <<"b", "a", "d", "g", "e", "-", "i", "n", "f", "o">>

K_system_msg == <<"s", "y", "s", "t", "e", "m", "-", "m", "s", "g">>

K_msg_id == <<"m", "s", "g", "-", "i", "d">>

K_reply_parent_msg_id == <<"r", "e", "p", "l", "y", "-", "p", "a", "r", "e", "n", "t", "-", "m", "s", "g", "-", "i", "d">>

K_reply_thread_parent_msg_id == <<"r", "e", "p", "l", "y", "-", "t", "h", "r", "e", "a", "d", "-", "p", "a", "r", "e", "n", "t", "-", "m", "s", "g", "-", "i", "d">>

IdSuffix == <<"-", "i", "d">>

TwitchHostSuffix == <<".", "t", "m", "i", ".", "t", "w", "i", "t", "c", "h", ".", "t", "v">>

PRIVMSG == <<"P", "R", "I", "V", "M", "S", "G">>

IGNORED_CMDS ==
    { <<"0", "0", "1">>,
      <<"0", "0", "2">>,
      <<"0", "0", "3">>,
      <<"0", "0", "4">>,
      <<"3", "5", "3">>,
      <<"3", "6", "6">>,
      <<"3", "7", "2">>,
      <<"3", "7", "5">>,
      <<"3", "7", "6">>,
      <<"C", "A", "P">>,
      <<"J", "O", "I", "N">>,
      <<"P", "O", "N", "G">>,
      <<"P", "I", "N", "G">>,
      <<"R", "E", "C", "O", "N", "N", "E", "C", "T">> }

-----------------------------------------------------------------------------
(* str::parse::<i64>: an optional sign, then one or more ASCII digits.     *)
(* Returns an Option.  (The texts of this model have at most 9 digits, so  *)
(* the i64 overflow error of longer digit strings is out of its inputs.)   *)

Digits == <<"0", "1", "2", "3", "4", "5", "6", "7", "8", "9">>

IsDigit(c) == \E d \in 1..10 : Digits[d] = c

DigitVal(c) == (CHOOSE d \in 1..10 : Digits[d] = c) - 1

RECURSIVE DigitsVal(_, _)
DigitsVal(acc, s) ==
    IF s = <<>> THEN acc ELSE DigitsVal(acc * 10 + DigitVal(Head(s)), Tail(s))

ParseI64(s) ==
    LET neg  == s # <<>> /\ Head(s) = "-"
        sign == s # <<>> /\ Head(s) \in {"-", "+"}
        ds   == IF sign THEN Tail(s) ELSE s
    IN  IF ds = <<>> \/ \E i \in 1..Len(ds) : ~IsDigit(ds[i]) THEN None
        ELSE Some(IF neg THEN 0 - DigitsVal(0, ds) ELSE DigitsVal(0, ds))

-----------------------------------------------------------------------------
(* main.rs: compress.  A message (twitch_irc IRCMessage) is                *)
(*   [tags: key -> Option<text>, prefix, command, params]                  *)
(* with prefix None, Some([full |-> FALSE, host]) for HostOnly, or         *)
(* Some([full |-> TRUE, nick, user, host]) for Full.                       *)

HostOnly(h) == [full |-> FALSE, nick |-> <<>>, user |-> None, host |-> Some(h)]

Full(n, u, h) == [full |-> TRUE, nick |-> n, user |-> u, host |-> h]

\* main.rs:233-245: the prefix after the host/user cleanup
CompressPrefix(prefix) ==
    IF IsSome(prefix) /\ Unwrap(prefix).full
       /\ IsSome(Unwrap(prefix).host)
       /\ EndsWith(Unwrap(Unwrap(prefix).host), TwitchHostSuffix)
    THEN Some(Full(Unwrap(prefix).nick, None, None))
    ELSE prefix

\* main.rs:233-245: the nick the closure compares display-name with
CompressNick(prefix) ==
    IF IsSome(prefix) /\ Unwrap(prefix).full THEN Unwrap(prefix).nick ELSE <<>>

\* main.rs:246-253: the retain closure
RetainTag(k, v, nick) ==
    IF k = K_client_nonce \/ (k = K_display_name /\ v = Some(nick)) THEN FALSE
    ELSE ~(~IsSome(v) \/ Unwrap(v) = <<>>)

compress(msg) ==
    LET nick == CompressNick(msg.prefix)
        keep == {k \in DOMAIN msg.tags : RetainTag(k, msg.tags[k], nick)}
    IN  [tags    |-> [k \in keep |-> msg.tags[k]],
         prefix  |-> CompressPrefix(msg.prefix),
         command |-> msg.command,
         params  |-> msg.params]

-----------------------------------------------------------------------------
(* main.rs: to_json.  A serde_json Value is [t, v] with t "string",        *)
(* "number" or "object"; a Map is a function from keys to Values.          *)

JString(s) == [t |-> "string", v |-> s]

JNumber(n) == [t |-> "number", v |-> n]

JObject(m) == [t |-> "object", v |-> m]

\* v.as_deref().unwrap_or_default()
TagText(o) == IF IsSome(o) THEN Unwrap(o) ELSE <<>>

\* main.rs:292-297: one badge "name/value" (value "" without a '/')
BadgeEntry(b) ==
    LET i == IndexOf(b, "/")
        k == IF i = 0 THEN b ELSE Take(b, i - 1)
        v == IF i = 0 THEN <<>> ELSE Drop(b, i)
        n == ParseI64(v)
    IN  [k |-> k, v |-> IF IsSome(n) THEN JNumber(Unwrap(n)) ELSE JString(v)]

\* main.rs:289-299: split on ',' and collect into a Map (the last entry of
\* a name wins)
BadgeData(v) ==
    LET es    == Split(v, ",")
        ents  == [i \in 1..Len(es) |-> BadgeEntry(es[i])]
        names == {ents[i].k : i \in 1..Len(ents)}
        last(n) == CHOOSE i \in 1..Len(ents) :
                       ents[i].k = n /\ \A j \in (i + 1)..Len(ents) : ents[j].k # n
    IN  [n \in names |-> ents[last(n)].v]

\* main.rs:307-315: the coercion of a generic tag
CoerceTag(k, v) ==
    IF EndsWith(k, IdSuffix) THEN JString(v)
    ELSE LET n == ParseI64(v)
         IN  IF IsSome(n) THEN JNumber(Unwrap(n)) ELSE JString(v)

\* main.rs:285-318: the tags map built by the loop over message.tags
JsonTagsKeepId(message) ==
    [k \in DOMAIN message.tags \ {K_tmi_sent_ts} |->
        IF k \in {K_badges, K_badge_info}
        THEN JObject(BadgeData(TagText(message.tags[k])))
        ELSE CoerceTag(k, TagText(message.tags[k]))]

JsonTags(message) ==
    [k \in DOMAIN message.tags \ {K_id, K_tmi_sent_ts} |->
        IF k \in {K_badges, K_badge_info}
        THEN JObject(BadgeData(TagText(message.tags[k])))
        ELSE CoerceTag(k, TagText(message.tags[k]))]

\* main.rs:302-303, 320: the id tag, else a fresh v4 uuid
JsonId(message, uuid) ==
    IF K_id \in DOMAIN message.tags THEN TagText(message.tags[K_id]) ELSE uuid

\* main.rs:304-305, 321-323: the tmi-sent-ts tag parsed, else the clock
JsonTimestamp(message, now) ==
    LET n == IF K_tmi_sent_ts \in DOMAIN message.tags
             THEN ParseI64(TagText(message.tags[K_tmi_sent_ts]))
             ELSE None
    IN  IF IsSome(n) THEN Unwrap(n) ELSE now

\* main.rs:330-333
JsonIrcNick(message) ==
    IF ~IsSome(message.prefix) THEN None
    ELSE IF Unwrap(message.prefix).full THEN Some(Unwrap(message.prefix).nick)
    ELSE Some(Unwrap(Unwrap(message.prefix).host))

\* main.rs:337-341
JsonChannel(message) ==
    IF message.params # <<>> /\ StartsWith(message.params[1], <<"#">>)
    THEN Some(Tail(message.params[1]))
    ELSE None

\* tags.get(key).and_then(|v| v.as_str())
TagAsStr(tags, key) ==
    IF key \in DOMAIN tags /\ tags[key].t = "string" THEN Some(tags[key].v) ELSE None

\* main.rs:342-354
JsonText(message, tags) ==
    IF Len(message.params) >= 2 THEN Some(message.params[2])
    ELSE IF IsSome(TagAsStr(tags, K_system_msg)) THEN TagAsStr(tags, K_system_msg)
    ELSE TagAsStr(tags, K_msg_id)

\* main.rs:356-367; cls = [count, pure] is what CommandMessage::parse (an
\* external crate) finds in the text
JsonCommands(irc_cmd, text, cls) ==
    IF irc_cmd = PRIVMSG /\ IsSome(text) /\ cls.count # 0
    THEN [count |-> Some(cls.count), only |-> IF cls.pure THEN Some(TRUE) ELSE None]
    ELSE [count |-> None, only |-> None]

\* the panic of unreachable!() at main.rs:328
Panic == [panic |-> TRUE]

\* main.rs:369
JsonExtras(message) ==
    Drop(message.params, IF Len(message.params) >= 2 THEN 2 ELSE Len(message.params))

\* main.rs:371-383: the Json built from the resolved parts
JsonRecord(message, uuid, now, cls, name, tags, irc_nick, text) ==
    [panic          |-> FALSE,
     id             |-> Some(JsonId(message, uuid)),
     timestamp      |-> JsonTimestamp(message, now),
     name           |-> name,
     tags           |-> tags,
     channel        |-> JsonChannel(message),
     message        |-> text,
     irc_nick       |-> irc_nick,
     irc_cmd        |-> message.command,
     irc_extras     |-> JsonExtras(message),
     commands_count |-> JsonCommands(message.command, text, cls).count,
     commands_only  |-> JsonCommands(message.command, text, cls).only]

\* main.rs:334: display_name.or_else(|| irc_nick.clone())
JsonName(tags0, irc_nick) ==
    IF K_display_name \in DOMAIN tags0 THEN Some(tags0[K_display_name].v) ELSE irc_nick

\* main.rs:326-329: tags.remove("display-name")
RemoveDisplayName(tags0) == [k \in DOMAIN tags0 \ {K_display_name} |-> tags0[k]]

\* main.rs:326-384, given the tags map the loop built (tags0) and the nick
JsonFromTags(message, uuid, now, cls, tags0, irc_nick) ==
    IF K_display_name \in DOMAIN tags0 /\ tags0[K_display_name].t # "string" THEN Panic
    ELSE JsonRecord(message, uuid, now, cls, JsonName(tags0, irc_nick),
                    RemoveDisplayName(tags0), irc_nick,
                    JsonText(message, RemoveDisplayName(tags0)))

\* uuid: what Uuid::new_v4() returns; now: Utc::now().timestamp_millis();
\* cls: the classifier's answer
to_json(message, uuid, now, cls) ==
    JsonFromTags(message, uuid, now, cls, JsonTags(message), JsonIrcNick(message))

-----------------------------------------------------------------------------
(* Inputs of the compress / to_json specification *)

T_bob == <<"b", "o", "b">>

T_Bob == <<"B", "o", "b">>

T_12 == <<"1", "2">>

T_0 == <<"0">>

T_1 == <<"1">>

T_17 == <<"1", "7">>

T_zz == <<"z", "z">>

K_mod == <<"m", "o", "d">>

K_room_id == <<"r", "o", "o", "m", "-", "i", "d">>

K_color == <<"c", "o", "l", "o", "r">>

\* a canonical 36-character uuid text
UuidDashes == {9, 14, 19, 24}

CanonicalId == [i \in 1..36 |-> IF i \in UuidDashes THEN "-" ELSE "a"]

\* the text Uuid::new_v4().to_string() returns (one representative)
FreshUuid == [i \in 1..36 |-> IF i \in UuidDashes THEN "-" ELSE "4"]

\* the 22-character unpadded base64 text of sixteen zero bytes
CompactId == [i \in 1..22 |-> "A"]

\* a short text that is neither canonical nor the encoding of 16 bytes
ShortId == <<"A", "A">>

\* 18 two-byte characters: 36 bytes, not canonical and not base64
WideId == [i \in 1..18 |-> "é"]

\* 36 characters of which the last takes two bytes: 37 bytes
LongId == [i \in 1..36 |-> IF i = 36 THEN "é" ELSE IF i \in UuidDashes THEN "-" ELSE "a"]

EmptyTags == [k \in {} |-> None]

DisplayNameChoices ==
    { EmptyTags, K_display_name :> Some(T_bob), K_display_name :> Some(T_Bob),
      K_display_name :> Some(T_12) }

IdChoices ==
    { EmptyTags, K_id :> Some(<<>>), K_id :> Some(CanonicalId), K_id :> Some(ShortId) }

TimestampChoices ==
    { EmptyTags, K_tmi_sent_ts :> Some(T_17), K_tmi_sent_ts :> Some(T_zz) }

FlagChoices ==
    { EmptyTags, K_mod :> None, K_mod :> Some(<<>>), K_mod :> Some(T_0), K_mod :> Some(T_1) }

ExtraChoices ==
    { EmptyTags,
      K_client_nonce :> Some(T_zz),
      K_room_id :> Some(T_12),
      K_badges :> Some(<<"s", "u", "b", "/", "1", "2", ",", "v", "i", "p">>),
      K_msg_id :> Some(T_zz) @@ K_color :> Some(T_zz) }

PrefixChoices ==
    { None,
      Some(HostOnly(<<"t", "m", "i", ".", "t", "w", "i", "t", "c", "h", ".", "t", "v">>)),
      Some(Full(T_bob, Some(T_bob), Some(<<"b", "o", "b", ".", "t", "m", "i", ".", "t", "w", "i", "t", "c", "h", ".", "t", "v">>))),
      Some(Full(T_bob, None, Some(<<"h", ".", "t", "v">>))) }

T_chan == <<"#", "c">>

T_hi == <<"h", "i">>

T_JOIN == <<"J", "O", "I", "N">>

T_USERNOTICE == <<"U", "S", "E", "R", "N", "O", "T", "I", "C", "E">>

CommandChoices ==
    { [command |-> PRIVMSG, params |-> <<T_chan, T_hi>>],
      [command |-> PRIVMSG, params |-> <<T_chan, T_hi, T_zz>>],
      [command |-> T_USERNOTICE, params |-> <<T_chan>>],
      [command |-> T_JOIN, params |-> <<>>] }

ProjMessages ==
    { [tags    |-> dn @@ id @@ ts @@ fl @@ ex,
       prefix  |-> pf,
       command |-> cp.command,
       params  |-> cp.params] :
        dn \in DisplayNameChoices, id \in IdChoices, ts \in TimestampChoices,
        fl \in FlagChoices, ex \in ExtraChoices, pf \in PrefixChoices,
        cp \in CommandChoices }

\* Utc::now().timestamp_millis()
Clock == {1000}

\* the classifier's answer where the record is not kept (it decides only
\* the commands.* fields)
AnyClassification == [count |-> 0, pure |-> FALSE]

\* what the command classifier may answer
Classifications ==
    { [count |-> 0, pure |-> FALSE], [count |-> 1, pure |-> FALSE],
      [count |-> 2, pure |-> TRUE] }

NoRecord == [panic |-> FALSE, none |-> TRUE]

NoIrcMessage == [tags |-> EmptyTags, prefix |-> None, command |-> <<>>, params |-> <<>>]

-----------------------------------------------------------------------------
(* main.rs:489-510: the legacy id repair,                                  *)
(*   Uuid::from_slice(&BASE64_STANDARD_NO_PAD.decode(text)?)?.to_string()  *)

B64Alphabet ==
    <<"A", "B", "C", "D", "E", "F", "G", "H", "I", "J", "K", "L", "M", "N", "O", "P", "Q", "R", "S", "T", "U", "V", "W", "X", "Y", "Z", "a", "b", "c", "d", "e", "f", "g", "h", "i", "j", "k", "l", "m",
      "n", "o", "p", "q", "r", "s", "t", "u", "v", "w", "x", "y", "z", "0", "1", "2", "3", "4", "5", "6", "7", "8", "9", "+", "/">>

HexDigits == <<"0", "1", "2", "3", "4", "5", "6", "7", "8", "9", "a", "b", "c", "d", "e", "f">>

IsB64(c) == \E i \in 1..64 : B64Alphabet[i] = c

B64Val(c) == (CHOOSE i \in 1..64 : B64Alphabet[i] = c) - 1

\* the six bits of a symbol value, most significant first
SixBits(v) ==
    <<(v \div 32) % 2, (v \div 16) % 2, (v \div 8) % 2, (v \div 4) % 2, (v \div 2) % 2, v % 2>>

ByteOf(bits, n) ==
    LET b(i) == bits[8 * (n - 1) + i]
    IN  128 * b(1) + 64 * b(2) + 32 * b(3) + 16 * b(4) + 8 * b(5) + 4 * b(6) + 2 * b(7) + b(8)

\* unpadded standard base64: every symbol of the alphabet, a length that is
\* not 1 modulo 4, and zero trailing bits; Some(bytes) or None (an error)
Base64Decode(text) ==
    IF \E i \in 1..Len(text) : ~IsB64(text[i]) THEN None
    ELSE IF Len(text) % 4 = 1 THEN None
    ELSE LET bits   == Flatten([i \in 1..Len(text) |-> SixBits(B64Val(text[i]))])
             nbytes == Len(bits) \div 8
         IN  IF \E i \in (8 * nbytes + 1)..Len(bits) : bits[i] # 0 THEN None
             ELSE Some([n \in 1..nbytes |-> ByteOf(bits, n)])

\* Uuid::from_slice(bytes)?.to_string(): 16 bytes, hyphenated lower hex
UuidFromSlice(bytes) ==
    IF Len(bytes) # 16 THEN None
    ELSE Some(Flatten([n \in 1..16 |->
             (IF n \in {5, 7, 9, 11} THEN <<"-">> ELSE <<>>)
             \o <<HexDigits[(bytes[n] \div 16) + 1], HexDigits[(bytes[n] % 16) + 1]>>]))

DecodeLegacyId(text) ==
    LET bytes == Base64Decode(text)
    IN  IF IsSome(bytes) THEN UuidFromSlice(Unwrap(bytes)) ELSE None

\* the characters of the model that take two bytes in UTF-8; every other
\* character of the model is ASCII and takes one
TwoByteChars == {"é"}

Utf8Width(c) == IF c \in TwoByteChars THEN 2 ELSE 1

\* str::len(): the length in bytes of the UTF-8 text
RECURSIVE StrLen(_)
StrLen(text) == IF text = <<>> THEN 0 ELSE Utf8Width(Head(text)) + StrLen(Tail(text))

\* main.rs:494: which tags the first repair loop touches
NeedsRepair(k, v) ==
    StrLen(v) # 36 /\ (k = K_reply_parent_msg_id \/ k = K_reply_thread_parent_msg_id)

\* main.rs:490-499: Some(message) or None when a decode fails (the `?`)
FixupReplyIds(message) ==
    LET bad == {k \in DOMAIN message.tags :
                    /\ IsSome(message.tags[k])
                    /\ NeedsRepair(k, Unwrap(message.tags[k]))
                    /\ ~IsSome(DecodeLegacyId(Unwrap(message.tags[k])))}
    IN  IF bad # {} THEN None
        ELSE Some([message EXCEPT !.tags =
                 [k \in DOMAIN message.tags |->
                     IF IsSome(message.tags[k]) /\ NeedsRepair(k, Unwrap(message.tags[k]))
                     THEN Some(Unwrap(DecodeLegacyId(Unwrap(message.tags[k]))))
                     ELSE message.tags[k]]])

\* main.rs:503-510: the id of the bulk header; Some(id) or None (the `?`)
RepairId(id) == IF StrLen(id) # 36 THEN DecodeLegacyId(id) ELSE Some(id)

-----------------------------------------------------------------------------
(* main.rs: the sinks (LogOutput::write)                                   *)

\* the channels of args.channels, the keys of ElasticLogOutput.indices
ConfigChannels == { <<"c">> }

\* main.rs:212-227: what write returns once a response has arrived
ElasticStatusResultStrict(st) == IF st \in {"success", "conflict"} THEN "ok" ELSE "err"

ElasticStatusResult(st) == "ok"

\* ev: what the environment does to this write: "success", "conflict",
\* "server_error" (the response of the index backend) or "io_error" (the
\* write, or the request, fails).  Returns [result, status].
\* main.rs:136-140
IrcSinkWrite(message, ev) ==
    [result |-> IF ev = "io_error" THEN "err" ELSE "ok", status |-> None]

\* main.rs:146-153
JsonSinkWrite(message, ev, uuid, now, cls) ==
    IF to_json(message, uuid, now, cls).panic THEN [result |-> "panic", status |-> None]
    ELSE [result |-> IF ev = "io_error" THEN "err" ELSE "ok", status |-> None]

\* main.rs:194-227, given the record to_json returned
ElasticSend(json, ev) ==
    IF json.panic THEN [result |-> "panic", status |-> None]
    ELSE IF ~IsSome(json.channel) THEN [result |-> "err", status |-> None]
    ELSE IF Unwrap(json.channel) \notin ConfigChannels THEN [result |-> "err", status |-> None]
    ELSE IF ev = "io_error" THEN [result |-> "err", status |-> None]
    ELSE [result |-> ElasticStatusResult(ev), status |-> Some(ev)]

\* main.rs:191-228
ElasticSinkWrite(message, ev, uuid, now, cls) == ElasticSend(to_json(message, uuid, now, cls), ev)

SinkWrite(k, message, ev, uuid, now, cls) ==
    IF k = "irc" THEN IrcSinkWrite(message, ev)
    ELSE IF k = "json" THEN JsonSinkWrite(message, ev, uuid, now, cls)
    ELSE ElasticSinkWrite(message, ev, uuid, now, cls)

AllSinkEvents == {"success", "conflict", "server_error", "io_error"}

\* a file or stdout sink sees no HTTP status
SinkEvents(k) == IF k = "elastic" THEN AllSinkEvents ELSE {"success", "io_error"}

\* main.rs:448: the filter of the read loop
ArchivePassIgnoreOverride(df, message) == message.command \notin IGNORED_CMDS

ArchivePass(df, message) == df \/ message.command \notin IGNORED_CMDS

-----------------------------------------------------------------------------
(* main.rs: backfill helpers                                               *)

\* usize::MAX (the largest integer TLC represents stands for it)
UsizeMax == 2147483647

\* main.rs:462
ChunkLimit(cs) == IF IsSome(cs) THEN Unwrap(cs) ELSE UsizeMax

\* s.len(): the bytes of the accumulator
RECURSIVE ByteLen(_)
ByteLen(us) == IF us = <<>> THEN 0 ELSE Head(us).size + ByteLen(Tail(us))

\* main.rs:522
ShouldFlushStrict(len, appending, limit) == len + appending > limit

ShouldFlush(len, appending, limit) == len + appending >= limit

\* idx.to_string(): the decimal digits of the chunk index
RECURSIVE IdxToString(_)
IdxToString(n) ==
    IF n < 10 THEN <<Digits[n + 1]>> ELSE IdxToString(n \div 10) \o <<Digits[(n % 10) + 1]>>

\* str::replace("%", to): every '%' of the pattern gives way to the text
RECURSIVE ReplacePercent(_, _)
ReplacePercent(text, to) ==
    IF text = <<>> THEN <<>>
    ELSE (IF Head(text) = "%" THEN to ELSE <<Head(text)>>) \o ReplacePercent(Tail(text), to)

\* main.rs:523, 530: args.output.replace("%", &idx.to_string())
ChunkPath(pattern, i) == ReplacePercent(pattern, IdxToString(i))

\* the output directory before the run: empty
NoFiles == [p \in {} |-> [content |-> <<>>, len |-> 0]]

\* std::fs::write(path, content) either writes the whole content ("ok"),
\* or fails before the file is created or truncated ("create_failed"), or
\* fails after that with only the first len bytes written ("write_failed")
FsOutcomeFits(w, content) == w.kind = "write_failed" => w.len < ByteLen(content)

\* the directory after std::fs::write: a file that exists is replaced
FsWrite(fs, path, content, w) ==
    IF w.kind = "create_failed" THEN fs
    ELSE [p \in DOMAIN fs \cup {path} |->
             IF p = path
             THEN [content |-> content,
                   len |-> IF w.kind = "ok" THEN ByteLen(content) ELSE w.len]
             ELSE fs[p]]

\* main.rs:475
BackfillFiltered(df, message) == ~df /\ message.command \in IGNORED_CMDS

\* main.rs:479, 483
HasTag(message, key) == key \in DOMAIN message.tags

-----------------------------------------------------------------------------
(* Inputs of the archive / backfill specification *)

MaxMsgs == 2

MaxLines == 3

MaxUnit == 2

MaxChunk == 3

T_PING == <<"P", "I", "N", "G">>

BobPrefix == Some(Full(T_bob, Some(T_bob), Some(<<"b", "o", "b", ".", "t", "m", "i", ".", "t", "w", "i", "t", "c", "h", ".", "t", "v">>)))

ArchiveCommands ==
    { [command |-> PRIVMSG, params |-> <<T_chan, T_hi>>],
      [command |-> T_JOIN, params |-> <<T_chan>>] }

\* what the live connection may deliver
ArchiveMessages ==
    { [tags |-> dn, prefix |-> BobPrefix, command |-> cp.command, params |-> cp.params] :
        dn \in {EmptyTags, K_display_name :> Some(T_bob), K_display_name :> Some(T_12)},
        cp \in ArchiveCommands }
    \cup { [tags |-> EmptyTags, prefix |-> None, command |-> T_PING, params |-> <<>>],
           [tags |-> K_mod :> Some(<<>>), prefix |-> BobPrefix, command |-> PRIVMSG,
            params |-> <<T_chan, T_hi>>] }

BackfillMsg(tags, command) ==
    [tags |-> tags, prefix |-> BobPrefix, command |-> command, params |-> <<T_chan, T_hi>>]

\* what an archived log may hold: messages ...
BackfillMessages ==
    { BackfillMsg(id @@ ts, PRIVMSG) :
        id \in IdChoices \cup {K_id :> Some(CompactId), K_id :> Some(WideId),
                              K_id :> Some(LongId)},
        ts \in {EmptyTags, K_tmi_sent_ts :> Some(T_17)} }
    \cup { BackfillMsg(K_id :> Some(CanonicalId) @@ K_tmi_sent_ts :> Some(T_17) @@ ex, PRIVMSG) :
             ex \in {K_display_name :> Some(T_12),
                     K_reply_parent_msg_id :> Some(CompactId),
                     K_reply_thread_parent_msg_id :> Some(ShortId),
                     K_reply_parent_msg_id :> Some(WideId),
                     K_reply_thread_parent_msg_id :> Some(LongId)} }
    \cup { BackfillMsg(K_id :> Some(CanonicalId) @@ K_tmi_sent_ts :> Some(T_17), T_JOIN) }

\* ... lines IRCMessage::parse rejects ("garbage"), and a failed read
LineInputs ==
    { [kind |-> "io_error", msg |-> NoIrcMessage], [kind |-> "garbage", msg |-> NoIrcMessage] }
    \cup { [kind |-> "msg", msg |-> m] : m \in BackfillMessages }

NoLine == [kind |-> "none", msg |-> NoIrcMessage]

\* the bytes of one two-line unit (header line and record line)
UnitSizes == 1..MaxUnit

ChunkSizes == {None} \cup {Some(b) : b \in 0..MaxChunk}

\* how many indices the elastic subcommand may be given (one or more)
IndexCounts == {1, 2}

\* file name patterns: with the '%' placeholder, and without it
OutputPatterns == { <<"c", "%">>, <<"c">> }

\* what a call of std::fs::write may do
FsOutcomes ==
    { [kind |-> "ok", len |-> 0], [kind |-> "create_failed", len |-> 0] }
    \cup { [kind |-> "write_failed", len |-> b] : b \in 0..(MaxLines * MaxUnit) }

-----------------------------------------------------------------------------
(* Inputs of the codec specification *)

MaxMiddle == 2

MaxRawLen == 4

SeqsUpTo(S, n) == UNION {[1..k -> S] : k \in 0..n}

\* "@k=v;... " tag blobs (with their separating space), or none
TagBlobs ==
    { <<>>,
      <<"@", "a", " ">>,
      <<"@", "a", "=", " ">>,
      <<"@", "a", "=", "b", " ">>,
      <<"@", "a", "=", "b", "\\", "s", ";", "c", "=", "d", "=", "e", " ">> }

\* ":nick[!user][@host] " prefixes (with their separating space), or none
PrefixTokens ==
    { <<>>,
      <<":", "n", " ">>,
      <<":", "n", "!", "u", " ">>,
      <<":", "n", "@", "h", " ">>,
      <<":", "n", "!", "u", "@", "h", " ">> }

CommandToken == <<"C">>

\* single-word parameters: non-empty, no space, no leading ':'
MiddleParams == { <<"x">>, <<"#", "c">> }

\* the text of a trailing parameter (what follows " :")
TrailingTexts ==
    { <<>>, <<"t">>, <<"t", " ", "t">>, <<"#", "t">>, <<"#", "t", " ", "t">>, <<":", "t">> }

\* None: the line has no trailing parameter
Trailings == {None} \cup {Some(t) : t \in TrailingTexts}

Line(tb, pt, mids, tr) ==
    tb \o pt \o CommandToken
       \o Flatten([i \in 1..Len(mids) |-> <<" ">> \o mids[i]])
       \o (IF IsSome(tr) THEN <<" ", ":">> \o Unwrap(tr) ELSE <<>>)

Lines ==
    { Line(tb, pt, mids, tr) :
        tb \in TagBlobs, pt \in PrefixTokens,
        mids \in SeqsUpTo(MiddleParams, MaxMiddle), tr \in Trailings }

RawChars == { Backslash, ":", "s", "n", "r", "a" }

RawValues == SeqsUpTo(RawChars, MaxRawLen)

NoMessage == [tags |-> <<>>, prefix |-> None, command |-> <<>>, params |-> <<>>]

-----------------------------------------------------------------------------
(* The codec specification: a wire line is parsed, written back and parsed *)
(* again; a tag value is unescaped.                                        *)

MainIdle ==
    /\ mode = "none" /\ dont_filter = FALSE /\ chunk_size = None /\ sink = "none"
    /\ pc = "done" /\ line = NoLine /\ nread = 0 /\ received = <<>> /\ written = <<>>
    /\ status = None /\ sbuf = <<>> /\ idx = 0 /\ files = NoFiles /\ units = <<>>
    /\ output = <<>>

ProjIdle == pmsg = NoIrcMessage /\ pstage = "none" /\ prec = NoRecord

CodecIdle ==
    /\ kind = "none" /\ input = <<>> /\ owned = FALSE /\ cstage = "init"
    /\ parsed = NoMessage /\ wire = <<>> /\ reparsed = NoMessage /\ unesc = <<>>

CodecInit ==
    /\ \/ kind = "line" /\ input \in Lines /\ owned = FALSE
       \/ kind = "tag" /\ input \in RawValues /\ owned \in BOOLEAN
    /\ cstage = "init"
    /\ parsed = NoMessage /\ wire = <<>> /\ reparsed = NoMessage /\ unesc = <<>>
    /\ ProjIdle /\ MainIdle

DoParse ==
    /\ kind = "line" /\ cstage = "init"
    /\ parsed' = parse(input)
    /\ cstage' = "parsed"
    /\ UNCHANGED <<kind, input, owned, wire, reparsed, unesc, projVars, mainVars>>

DoWrite ==
    /\ kind = "line" /\ cstage = "parsed"
    /\ wire' = write(parsed)
    /\ cstage' = "written"
    /\ UNCHANGED <<kind, input, owned, parsed, reparsed, unesc, projVars, mainVars>>

DoReparse ==
    /\ kind = "line" /\ cstage = "written"
    /\ reparsed' = parse(wire)
    /\ cstage' = "reparsed"
    /\ UNCHANGED <<kind, input, owned, parsed, wire, unesc, projVars, mainVars>>

DoUnescape ==
    /\ kind = "tag" /\ cstage = "init"
    /\ unesc' = unescape([owned |-> owned, s |-> input])
    /\ cstage' = "unescaped"
    /\ UNCHANGED <<kind, input, owned, parsed, wire, reparsed, projVars, mainVars>>

CodecNext == DoParse \/ DoWrite \/ DoReparse \/ DoUnescape

SpecCodec == CodecInit /\ [][CodecNext]_vars

-----------------------------------------------------------------------------
(* C6 (as claimed): parsing what write produced for parse(line) gives the  *)
(* same tag sequence, prefix, command and parameter sequence as            *)
(* parse(line), for every well-formed line, also when the trailing         *)
(* parameter begins with '#' or contains spaces.                           *)
C6_RoundTrip ==
    cstage = "reparsed" =>
        /\ reparsed.tags = parsed.tags
        /\ reparsed.prefix = parsed.prefix
        /\ reparsed.command = parsed.command
        /\ reparsed.params = parsed.params

-----------------------------------------------------------------------------
(* C10: unescape returns an owned value and a backslash-free raw value     *)
(* unchanged; otherwise the first backslash-delimited segment, then for    *)
(* each later segment either the segment verbatim (when it follows an      *)
(* empty segment that emitted a backslash), or one backslash (when it is   *)
(* empty), or its first character decoded followed by its rest.            *)

\* segment i (i >= 2) is appended verbatim: the segment before it is a later
\* segment, is empty, and was not itself appended verbatim
RECURSIVE C10_Verbatim(_, _)
C10_Verbatim(segs, i) ==
    /\ i >= 3
    /\ segs[i - 1] = <<>>
    /\ ~C10_Verbatim(segs, i - 1)

C10_Decode(c) ==
    IF c = ":" THEN ";"
    ELSE IF c = "s" THEN " "
    ELSE IF c = "r" THEN "\r"
    ELSE IF c = "n" THEN "\n"
    ELSE c

C10_Piece(segs, i) ==
    IF C10_Verbatim(segs, i) THEN segs[i]
    ELSE IF segs[i] = <<>> THEN <<Backslash>>
    ELSE <<C10_Decode(segs[i][1])>> \o Tail(segs[i])

C10_Expected(isOwned, raw) ==
    IF isOwned \/ ~Contains(raw, Backslash) THEN raw
    ELSE LET segs == Split(raw, Backslash)
         IN  segs[1] \o Flatten([j \in 1..(Len(segs) - 1) |-> C10_Piece(segs, j + 1)])

C10_Unescape ==
    cstage = "unescaped" => unesc = C10_Expected(owned, input)

\* "\\s" (an empty segment, then "s" verbatim) unescapes to backslash, 's'
C10_Witness ==
    /\ cstage = "unescaped" /\ ~owned
    /\ input = <<Backslash, Backslash, "s">>
    /\ unesc = <<Backslash, "s">>

-----------------------------------------------------------------------------
(* The compress / to_json specification: a received message is normalized  *)
(* by compress and then projected by to_json, the order in which every      *)
(* caller of to_json (the JSON sink, the Elasticsearch sink, backfill)      *)
(* applies them.                                                            *)

ProjInit ==
    /\ pmsg \in ProjMessages
    /\ pstage = "parsed"
    /\ prec = NoRecord
    /\ CodecIdle /\ MainIdle

DoCompress ==
    /\ pstage = "parsed"
    /\ pmsg' = compress(pmsg)
    /\ pstage' = "compressed"
    /\ UNCHANGED <<prec, codecVars, mainVars>>

DoProject ==
    /\ pstage = "compressed"
    /\ \E now \in Clock, cls \in Classifications :
           prec' = to_json(pmsg, FreshUuid, now, cls)
    /\ pstage' = "projected"
    /\ UNCHANGED <<pmsg, codecVars, mainVars>>

ProjNext == DoCompress \/ DoProject

SpecProject == ProjInit /\ [][ProjNext]_vars

-----------------------------------------------------------------------------
(* C7 (as claimed): after compress no tag valued "0" or "" remains, and no *)
(* display-name tag whose value equals the prefix nick remains.            *)
C7_NoDefaultTags ==
    pstage = "compressed" =>
        \A k \in DOMAIN pmsg.tags :
            /\ TagText(pmsg.tags[k]) # <<>>
            /\ TagText(pmsg.tags[k]) # T_0
            /\ ~(/\ k = K_display_name
                 /\ IsSome(pmsg.prefix) /\ Unwrap(pmsg.prefix).full
                 /\ pmsg.tags[k] = Some(Unwrap(pmsg.prefix).nick))

-----------------------------------------------------------------------------
(* C8: every record to_json produces (for a message as compress left it,   *)
(* with or without id and tmi-sent-ts tags) has a non-empty id and an      *)
(* integer timestamp, and its tags map has none of the keys display-name,  *)
(* id, tmi-sent-ts.                                                        *)
C8_RecordInvariants ==
    (pstage = "projected" /\ ~prec.panic) =>
        /\ IsSome(prec.id) /\ Unwrap(prec.id) # <<>>
        /\ prec.timestamp \in Int
        /\ DOMAIN prec.tags \cap {K_display_name, K_id, K_tmi_sent_ts} = {}

\* a message without id and tmi-sent-ts tags, with a display-name tag, projected
C8_Witness ==
    /\ pstage = "projected" /\ ~prec.panic
    /\ K_id \notin DOMAIN pmsg.tags
    /\ K_tmi_sent_ts \notin DOMAIN pmsg.tags
    /\ K_display_name \in DOMAIN pmsg.tags
    /\ prec.id = Some(FreshUuid)
    /\ prec.timestamp \in Clock

-----------------------------------------------------------------------------
(* C9 (as claimed): to_json returns a record for every normalized message, *)
(* whatever its tag values (a display-name shaped like an integer          *)
(* included): it never reaches the unreachable!() panic.                   *)
C9_Total ==
    pstage = "projected" => ~prec.panic

-----------------------------------------------------------------------------
(* C11 (as claimed): every tag of the projected message other than badges, *)
(* badge-info, id and tmi-sent-ts is in the tags map of the record         *)
(* (display-name, which to_json moves to the name field, aside), coerced   *)
(* so: a key ending in "-id" gives a string; otherwise the value "1" gives *)
(* boolean true; otherwise a value that parses as an integer gives that    *)
(* number; otherwise the value stays a string.                             *)
C11_True == [t |-> "bool", v |-> TRUE]

C11_Claimed(k, v) ==
    IF EndsWith(k, IdSuffix) THEN JString(v)
    ELSE IF v = T_1 THEN C11_True
    ELSE IF IsSome(ParseI64(v)) THEN JNumber(Unwrap(ParseI64(v)))
    ELSE JString(v)

C11_GenericKeys ==
    DOMAIN pmsg.tags \ {K_badges, K_badge_info, K_id, K_tmi_sent_ts, K_display_name}

C11_Coercion ==
    (pstage = "projected" /\ ~prec.panic) =>
        \A k \in C11_GenericKeys :
            /\ k \in DOMAIN prec.tags
            /\ prec.tags[k].t = C11_Claimed(k, TagText(pmsg.tags[k])).t
            /\ prec.tags[k].v = C11_Claimed(k, TagText(pmsg.tags[k])).v

-----------------------------------------------------------------------------
(* The program: main dispatches to archive or backfill (main.rs:549-552).  *)

Init ==
    /\ \/ /\ mode = "archive" /\ sink \in {"irc", "json", "elastic"}
          /\ chunk_size = None /\ output = <<>>
       \/ /\ mode = "backfill" /\ sink = "none"
          /\ chunk_size \in ChunkSizes /\ output \in OutputPatterns
    /\ dont_filter \in BOOLEAN
    /\ pc = "start" /\ line = NoLine /\ nread = 0
    /\ received = <<>> /\ written = <<>> /\ status = None
    /\ sbuf = <<>> /\ idx = 0 /\ files = NoFiles /\ units = <<>>
    /\ CodecIdle /\ ProjIdle

\* main.rs:545-547: installing the crypto provider may fail, before the
\* dispatch on the subcommand
MainSetup(provider_ok, then) == IF provider_ok THEN then ELSE "error"

\* archive up to its read loop, main.rs:397-444.  join_ok: every
\* client.join(channel)? returned Ok; nidx: how many indices the command
\* line gave (at least one); key_ok: the API key file could be read.
ArchiveSetup(k, join_ok, nidx, key_ok) ==
    IF ~join_ok THEN "error"
    ELSE IF k # "elastic" THEN "running"
    ELSE IF nidx # 1 /\ nidx # Cardinality(ConfigChannels) THEN "error"
    ELSE IF ~key_ok THEN "panic"
    ELSE "running"

ArchiveStart(provider_ok, join_ok, nidx, key_ok) ==
    /\ mode = "archive" /\ pc = "start"
    /\ pc' = MainSetup(provider_ok, ArchiveSetup(sink, join_ok, nidx, key_ok))
    /\ UNCHANGED <<mode, dont_filter, chunk_size, sink, line, nread, received, written,
                   status, sbuf, idx, output, files, units, codecVars, projVars>>

\* backfill up to its loop, main.rs:458-465.  open_ok: File::open(path)?
\* returned Ok (or the input is stdin)
BackfillStart(provider_ok, open_ok) ==
    /\ mode = "backfill" /\ pc = "start"
    /\ pc' = MainSetup(provider_ok, IF open_ok THEN "running" ELSE "error")
    /\ UNCHANGED <<mode, dont_filter, chunk_size, sink, line, nread, received, written,
                   status, sbuf, idx, output, files, units, codecVars, projVars>>

\* main.rs:450: `output.write(&msg)?`, given what write returned
ArchiveWritten(c, r) ==
    /\ written' = Append(written, c)
    /\ status' = r.status
    /\ pc' = IF r.result = "ok" THEN "running"
             ELSE IF r.result = "err" THEN "error" ELSE "panic"

\* main.rs:450, for the message compress left
ArchiveDeliver(c, ev, now) ==
    ArchiveWritten(c, SinkWrite(sink, c, ev, FreshUuid, now, AnyClassification))

\* one iteration of `while let Some(msg) = receiver.recv().await`, main.rs:446-452
ArchiveRecv(m, ev, now) ==
    /\ mode = "archive" /\ pc = "running" /\ nread < MaxMsgs
    /\ ev \in SinkEvents(sink)
    /\ nread' = nread + 1
    /\ line' = [kind |-> "msg", msg |-> m]
    /\ received' = Append(received, m)
    /\ IF ArchivePass(dont_filter, m)
       THEN ArchiveDeliver(compress(m), ev, now)
       ELSE /\ status' = None
            /\ UNCHANGED <<written, pc>>
    /\ UNCHANGED <<mode, dont_filter, chunk_size, sink, sbuf, idx, output, files, units>>
    /\ UNCHANGED <<codecVars, projVars>>

\* receiver.recv() returns None: the loop ends and archive returns Ok(())
ArchiveEnd ==
    /\ mode = "archive" /\ pc = "running"
    /\ pc' = "done"
    /\ UNCHANGED <<mode, dont_filter, chunk_size, sink, line, nread, received, written,
                   status, sbuf, idx, output, files, units, codecVars, projVars>>

\* the line is dropped by a `continue`, main.rs:470-485
BackfillSkips(l) ==
    \/ l.kind = "garbage"
    \/ /\ l.kind = "msg"
       /\ \/ BackfillFiltered(dont_filter, l.msg)
          \/ ~HasTag(l.msg, K_tmi_sent_ts)
          \/ ~HasTag(l.msg, K_id)

\* the push of an accepted unit, with the flush before it, main.rs:522-527.
\* size: the bytes of the unit; w: what std::fs::write does.
BackfillPush(size, w) ==
    IF ShouldFlush(ByteLen(sbuf), size, ChunkLimit(chunk_size))
    THEN /\ FsOutcomeFits(w, sbuf)
         /\ files' = FsWrite(files, ChunkPath(output, idx), sbuf, w)
         /\ IF w.kind = "ok"
            THEN /\ idx' = idx + 1
                 /\ sbuf' = <<[n |-> nread + 1, size |-> size]>>
                 /\ units' = Append(units, [n |-> nread + 1, size |-> size])
                 /\ UNCHANGED pc
            ELSE /\ pc' = "error"
                 /\ sbuf' = <<>>
                 /\ UNCHANGED <<idx, units>>
    ELSE /\ w.kind = "ok"
         /\ sbuf' = Append(sbuf, [n |-> nread + 1, size |-> size])
         /\ units' = Append(units, [n |-> nread + 1, size |-> size])
         /\ UNCHANGED <<pc, idx, files>>

\* main.rs:503-510, given the record to_json returned
BackfillConvertJson(json) ==
    IF json.panic THEN "panic"
    ELSE IF ~IsSome(RepairId(Unwrap(json.id))) THEN "error"
    ELSE "unit"

\* main.rs:501-510, given what the repair of the reply ids returned
BackfillConvertFixed(fixed, now) ==
    IF ~IsSome(fixed) THEN "error"
    ELSE BackfillConvertJson(to_json(Unwrap(fixed), FreshUuid, now, AnyClassification))

\* what the body of the loop does with a line it did not skip, up to the
\* unit (main.rs:487-510): "unit", or "error" (a `?` returned) or "panic"
BackfillConvert(l, now) == BackfillConvertFixed(FixupReplyIds(compress(l.msg)), now)

\* the rest of the iteration, given what the conversion returned
BackfillAccept(outcome) ==
    IF outcome # "unit"
    THEN pc' = outcome /\ UNCHANGED <<sbuf, idx, files, units>>
    ELSE \E size \in UnitSizes, w \in FsOutcomes : BackfillPush(size, w)

\* one iteration of `for line in input.lines()`, main.rs:467-528
BackfillLine(l, now) ==
    /\ mode = "backfill" /\ pc = "running" /\ nread < MaxLines
    /\ nread' = nread + 1
    /\ line' = l
    /\ IF l.kind = "io_error"
       THEN pc' = "error" /\ UNCHANGED <<sbuf, idx, files, units>>
       ELSE IF BackfillSkips(l)
       THEN UNCHANGED <<pc, sbuf, idx, files, units>>
       ELSE BackfillAccept(BackfillConvert(l, now))
    /\ UNCHANGED <<mode, dont_filter, chunk_size, sink, received, written, status, output>>
    /\ UNCHANGED <<codecVars, projVars>>

\* end of input: the final flush, main.rs:529-533
BackfillEnd(w) ==
    /\ mode = "backfill" /\ pc = "running"
    /\ IF sbuf # <<>>
       THEN /\ FsOutcomeFits(w, sbuf)
            /\ files' = FsWrite(files, ChunkPath(output, idx), sbuf, w)
            /\ sbuf' = <<>>
            /\ pc' = IF w.kind = "ok" THEN "done" ELSE "error"
       ELSE /\ w.kind = "ok"
            /\ pc' = "done"
            /\ UNCHANGED <<sbuf, files>>
    /\ UNCHANGED <<mode, dont_filter, chunk_size, sink, line, nread, received, written,
                   status, idx, output, units, codecVars, projVars>>

Next ==
    \/ \E provider_ok \in BOOLEAN, join_ok \in BOOLEAN, nidx \in IndexCounts, key_ok \in BOOLEAN :
           ArchiveStart(provider_ok, join_ok, nidx, key_ok)
    \/ \E provider_ok \in BOOLEAN, open_ok \in BOOLEAN : BackfillStart(provider_ok, open_ok)
    \/ \E m \in ArchiveMessages, ev \in AllSinkEvents, now \in Clock : ArchiveRecv(m, ev, now)
    \/ ArchiveEnd
    \/ \E l \in LineInputs, now \in Clock : BackfillLine(l, now)
    \/ \E w \in FsOutcomes : BackfillEnd(w)

Spec == Init /\ [][Next]_vars

-----------------------------------------------------------------------------
(* C1 (as claimed): in batch mode with byte budget B, the number of output *)
(* files equals the number of times the running sum of the accepted units'       *)
(* sizes (the accumulator's bytes plus the next unit; after a flush the    *)
(* accumulator restarts with just that unit) reaches or exceeds B, plus    *)
(* one final file at end of input if and only if data remains.             *)

UnitSizesOf(us) == [i \in 1..Len(us) |-> us[i].size]

\* how often the running sum reaches the budget; sum: the bytes accumulated
RECURSIVE C1_Flushes(_, _, _)
C1_Flushes(sizes, sum, budget) ==
    IF sizes = <<>> THEN 0
    ELSE IF sum + Head(sizes) >= budget
         THEN 1 + C1_Flushes(Tail(sizes), Head(sizes), budget)
         ELSE C1_Flushes(Tail(sizes), sum + Head(sizes), budget)

\* the bytes left in the accumulator after the last unit
RECURSIVE C1_Remaining(_, _, _)
C1_Remaining(sizes, sum, budget) ==
    IF sizes = <<>> THEN sum
    ELSE IF sum + Head(sizes) >= budget
         THEN C1_Remaining(Tail(sizes), Head(sizes), budget)
         ELSE C1_Remaining(Tail(sizes), sum + Head(sizes), budget)

C1_FileCount ==
    mode = "backfill" =>
        /\ pc = "running" =>
               Cardinality(DOMAIN files)
                   = C1_Flushes(UnitSizesOf(units), 0, ChunkLimit(chunk_size))
        /\ pc = "done" =>
               Cardinality(DOMAIN files)
                   = C1_Flushes(UnitSizesOf(units), 0, ChunkLimit(chunk_size))
                     + (IF C1_Remaining(UnitSizesOf(units), 0, ChunkLimit(chunk_size)) > 0
                        THEN 1 ELSE 0)

-----------------------------------------------------------------------------
(* C2 (as claimed): every file written in batch mode, by a flush inside    *)
(* the loop or by the final flush, is strictly shorter than the budget B.  *)
C2_AllFilesBelowBudget ==
    mode = "backfill" =>
        \A p \in DOMAIN files : files[p].len < ChunkLimit(chunk_size)

(* C2 (amended): every file written in batch mode that holds two or more   *)
(* units is strictly shorter than the budget B (a file that holds a single *)
(* unit may reach or exceed B, and a file may be empty).                   *)
C2_MultiUnitFilesBelowBudget ==
    mode = "backfill" =>
        \A p \in DOMAIN files :
            Len(files[p].content) >= 2 => files[p].len < ChunkLimit(chunk_size)

\* budget 3: a file of two 1-byte units flushed in the loop, then the final file
C2_Witness ==
    /\ mode = "backfill" /\ pc = "done"
    /\ chunk_size = Some(3)
    /\ Cardinality(DOMAIN files) = 2
    /\ \E p \in DOMAIN files : Len(files[p].content) = 2 /\ files[p].len = 2

-----------------------------------------------------------------------------
(* C4: in the live read loop, a received message whose command is in the   *)
(* ignore set, with the do-not-filter override unset, is not handed to the *)
(* sink; every other message is normalized by compress and handed to the   *)
(* sink exactly once, in the order of receipt.                             *)

RECURSIVE C4_Expected(_, _)
C4_Expected(msgs, df) ==
    IF msgs = <<>> THEN <<>>
    ELSE (IF ~df /\ Head(msgs).command \in IGNORED_CMDS THEN <<>>
          ELSE <<compress(Head(msgs))>>)
         \o C4_Expected(Tail(msgs), df)

C4_FilterAndOrder ==
    mode = "archive" => written = C4_Expected(received, dont_filter)

\* a JOIN is dropped, then a PRIVMSG is written as compress left it
C4_Witness ==
    /\ mode = "archive" /\ ~dont_filter /\ pc = "running"
    /\ Len(received) = 2
    /\ received[1].command = T_JOIN
    /\ received[2].command = PRIVMSG
    /\ K_display_name \in DOMAIN received[2].tags
    /\ Len(written) = 1
    /\ K_display_name \notin DOMAIN written[1].tags

-----------------------------------------------------------------------------
(* C5: parse-skip and sink-soft errors do not abort the run.  In batch     *)
(* mode a line that fails to parse, or lacks a tmi-sent-ts tag or an id    *)
(* tag, emits no unit and the loop goes on; in live mode with the          *)
(* Elasticsearch sink a response with a conflict or any other non-success  *)
(* status makes write return Ok, and the loop goes on.                     *)

C5_ParseSkip(l) ==
    \/ l.kind = "garbage"
    \/ l.kind = "msg" /\ K_tmi_sent_ts \notin DOMAIN l.msg.tags
    \/ l.kind = "msg" /\ K_id \notin DOMAIN l.msg.tags

C5_SoftErrorsStep ==
    nread' = nread + 1 =>
        /\ (mode = "backfill" /\ C5_ParseSkip(line')) =>
               /\ units' = units /\ sbuf' = sbuf /\ files' = files /\ idx' = idx
               /\ pc' = "running"
        /\ (mode = "archive" /\ sink = "elastic"
            /\ status' \in {Some("conflict"), Some("server_error")}) =>
               pc' = "running"

C5_SoftErrors == [][C5_SoftErrorsStep]_vars

\* a unit is accumulated, then a line that does not parse leaves it in place
C5_Witness ==
    /\ mode = "backfill" /\ pc = "running"
    /\ nread = 2
    /\ line.kind = "garbage"
    /\ Len(sbuf) = 1

-----------------------------------------------------------------------------
(* C12 (as claimed): in a batch run that reached the end of its input, the *)
(* files carry the chunk indices 0, 1, 2, ... in the order written, every  *)
(* file is non-empty and made of whole units, and the files concatenated   *)
(* in index order are the units of the accepted lines, in input order,     *)
(* none lost and none twice.                                               *)

\* the units of the files of chunk indices i .. n - 1, in that order
RECURSIVE C12_Concat(_, _)
C12_Concat(i, n) ==
    IF i >= n THEN <<>>
    ELSE files[ChunkPath(output, i)].content \o C12_Concat(i + 1, n)

C12_ChunkFiles ==
    (mode = "backfill" /\ pc = "done") =>
        /\ DOMAIN files = {ChunkPath(output, i) : i \in 0..(Cardinality(DOMAIN files) - 1)}
        /\ \A p \in DOMAIN files :
               files[p].content # <<>> /\ files[p].len = ByteLen(files[p].content)
        /\ C12_Concat(0, Cardinality(DOMAIN files)) = units

-----------------------------------------------------------------------------
(* C13 (as claimed): in batch mode a line that passes the filter and the   *)
(* tag-presence checks, but whose id (or reply-parent id) value is not 36  *)
(* characters long and cannot be decoded from the legacy compact encoding, *)
(* is not skipped: the run ends with an error at that line, no further     *)
(* line is processed, and the units accumulated since the last flush are   *)
(* never written to a file.                                                *)

C13_IdKeys == {K_id, K_reply_parent_msg_id, K_reply_thread_parent_msg_id}

C13_Undecodable(v) == Len(v) # 36 /\ ~IsSome(DecodeLegacyId(v))

C13_PassesChecks(l) ==
    /\ l.kind = "msg"
    /\ dont_filter \/ l.msg.command \notin IGNORED_CMDS
    /\ K_tmi_sent_ts \in DOMAIN l.msg.tags
    /\ K_id \in DOMAIN l.msg.tags

C13_BadIdLine(l) ==
    /\ C13_PassesChecks(l)
    /\ \E k \in C13_IdKeys \cap DOMAIN l.msg.tags :
           C13_Undecodable(TagText(l.msg.tags[k]))

C13_FatalIdStep ==
    /\ (mode = "backfill" /\ nread' = nread + 1 /\ C13_BadIdLine(line')) =>
           /\ pc' = "error"
           /\ files' = files /\ units' = units
    /\ (mode = "backfill" /\ pc = "error") =>
           /\ pc' = "error" /\ nread' = nread /\ files' = files

C13_FatalId == [][C13_FatalIdStep]_vars

=============================================================================
